---- MODULE Spec2Model ----
(***************************************************************************)
(* Stream reassembly and application-protocol decoding of wirefish         *)
(* (src-tauri/sniffer_parser/src/application.rs).                          *)
(*                                                                         *)
(* A buffer is a sequence of elements.  A body byte is one element; the    *)
(* units the header parser (httparse) consumes are one element each: the   *)
(* request or status line, one header line, the blank line that ends the   *)
(* header block.  Every element is a record [k, n, v] so that any two      *)
(* elements can be compared.                                               *)
(*                                                                         *)
(* The libraries the code calls are modelled by what the code relies on:   *)
(*   httparse   Partial, Complete(offset of the body) or Err, on the whole *)
(*              buffer; a segment boundary falls between header lines      *)
(*   flate2     a decoder yields the content of a stream of its own format *)
(*              at the front of its input and fails on everything else     *)
(*   mime       type "/" subtype and at most one parameter                 *)
(*   encoding_rs  for_label knows utf-8 and iso-8859-1                     *)
(*   tls_parser the record header byte by byte (type, version, length),    *)
(*              Incomplete when bytes are missing, Error on a length over  *)
(*              the limit or a body that does not parse                    *)
(* A panic (unwrap on None or Err, index out of bounds) ends the process:  *)
(* aborted becomes TRUE and no call follows.                               *)
(***************************************************************************)
EXTENDS Integers, Sequences, FiniteSets, TLC

VARIABLES
    stream,         \* per flow: the bytes the capture delivers, in order
    pos,            \* per flow: how many of them have been delivered
    parsers,        \* ACTIVE_PARSERS: flow key -> accumulated buffer
    parsed_packet,  \* application layer of the last call's result holder
    call,           \* the last call: its inputs and what it decided
    reports,        \* every artifact written so far, with its stream position
    aborted,        \* a panic has unwound the call (the process is gone)
    input,          \* argument of the pure function under check
    output,         \* its result
    workers,        \* per worker thread: its own ACTIVE_PARSERS
    routed          \* per worker thread: how many bytes it was handed

vars == <<stream, pos, parsers, parsed_packet, call, reports, aborted, input, output,
          workers, routed>>

\* ------------------------------------------------------------------ bounds

\* Largest Content-Length value of the corpus.
MaxLength == 2
\* Bodies of plain data bytes have 0..MaxBody bytes.
MaxBody == 3
\* Most bytes one segment carries.
MaxSeg == 3
\* Most data bytes of the chunks fed to merge_chunks alone.
MaxChunk == 2

\* --------------------------------------------------------------- constants

HTTP_PORT == 80
TLS_PORT == 443
\* let mut headers = [httparse::EMPTY_HEADER; 1024]
MaxHeaders == 1024

CONTENT_ENCODING == "Content-Encoding"
TRANSFER_ENCODING == "Transfer-Encoding"
CONTENT_TYPE == "Content-Type"
CONTENT_LENGTH == "Content-Length"
CHUNKED == <<"chunked">>
GZIP == <<"gzip">>
ZLIB == <<"zlib">>
DEFLATE == <<"deflate">>

\* ---------------------------------------------------------------- elements

Byte(b) == [k |-> "byte", n |-> b, v |-> <<>>]
Hdr(name, value) == [k |-> "hdr", n |-> name, v |-> value]
RequestLine == [k |-> "start", n |-> "Request", v |-> <<>>]
StatusLine == [k |-> "start", n |-> "Response", v |-> <<>>]
\* the empty line (CR LF) that ends the header block
EndOfHeaders == [k |-> "eoh", n |-> "", v |-> <<>>]
\* a byte no header line may hold
Junk == [k |-> "junk", n |-> "", v |-> <<>>]

CR == Byte("CR")
LF == Byte("LF")
Zero == Byte("0")
X == Byte("x")
\* a byte that is no valid UTF-8
Invalid == Byte("xFF")

Bytes(s) == [i \in 1..Len(s) |-> Byte(s[i])]
Drop(s, n) == SubSeq(s, n + 1, Len(s))
Take(s, n) == SubSeq(s, 1, n)
Reverse(s) == [i \in 1..Len(s) |-> s[Len(s) + 1 - i]]
Min(a, b) == IF a <= b THEN a ELSE b

\* Option<T>: <<>> is None, <<x>> is Some(x).
None == <<>>
Some(x) == <<x>>
IsSome(o) == Len(o) = 1
IsNone(o) == Len(o) = 0
Unwrap(o) == o[1]

\* ------------------------------------------------------- number parsing

DecDigit == [c \in {"0", "1", "2", "3", "4", "5", "6", "7", "8", "9"} |->
    CASE c = "0" -> 0 [] c = "1" -> 1 [] c = "2" -> 2 [] c = "3" -> 3
      [] c = "4" -> 4 [] c = "5" -> 5 [] c = "6" -> 6 [] c = "7" -> 7
      [] c = "8" -> 8 [] c = "9" -> 9]

HexDigit == [c \in DOMAIN DecDigit \cup {"a", "b", "c", "d", "e", "f", "A", "B", "C", "D", "E", "F"} |->
    CASE c \in DOMAIN DecDigit -> DecDigit[c]
      [] c \in {"a", "A"} -> 10 [] c \in {"b", "B"} -> 11 [] c \in {"c", "C"} -> 12
      [] c \in {"d", "D"} -> 13 [] c \in {"e", "E"} -> 14 [] c \in {"f", "F"} -> 15]

RECURSIVE DigitsValue(_, _, _)
DigitsValue(chars, table, radix) ==
    IF chars = <<>> THEN 0
    ELSE DigitsValue(Take(chars, Len(chars) - 1), table, radix) * radix
         + table[chars[Len(chars)]]

\* str::parse::<usize> and usize::from_str_radix: an optional "+", then one
\* or more digits of the radix; anything else is Err (None here).
FromStrRadix(chars, table, radix) ==
    LET digits == IF chars # <<>> /\ chars[1] = "+" THEN Drop(chars, 1) ELSE chars
    IN IF digits # <<>> /\ \A i \in 1..Len(digits) : digits[i] \in DOMAIN table
       THEN Some(DigitsValue(digits, table, radix))
       ELSE None

ParseUsize(chars) == FromStrRadix(chars, DecDigit, 10)

\* ------------------------------------------------------ header parsing

\* httparse::Request::parse / Response::parse on the whole buffer.
\*   Partial:  the header block is not all there yet
\*   Complete: start is the offset of the first body byte
\*   Err:      the start line is of the other kind, or something that is no
\*             header line stands before the end of the header block
FirstNonHeader(buf) ==
    LET stops == {i \in 2..Len(buf) : buf[i].k # "hdr"}
    IN IF stops = {} THEN 0 ELSE CHOOSE i \in stops : \A j \in stops : i <= j

HttpParse(buf, http_type) ==
    LET stop == FirstNonHeader(buf)
        none == [st |-> "Partial", start |-> 0, headers |-> <<>>]
    IN IF buf = <<>> THEN none
       ELSE IF buf[1].k # "start" \/ buf[1].n # http_type THEN [none EXCEPT !.st = "Err"]
       ELSE IF stop = 0 THEN
            IF Len(buf) - 1 > MaxHeaders THEN [none EXCEPT !.st = "Err"] ELSE none
       ELSE IF buf[stop].k # "eoh" \/ stop - 2 > MaxHeaders THEN [none EXCEPT !.st = "Err"]
       ELSE [st |-> "Complete", start |-> stop, headers |-> SubSeq(buf, 2, stop - 1)]

\* std::str::from_utf8 on a header value
IsUtf8(value) == \A i \in 1..Len(value) : value[i] # "xFF"

get_header_value(name, headers) ==
    LET found == {i \in 1..Len(headers) : headers[i].n = name}
    IN IF found = {} THEN None
       ELSE LET h == headers[CHOOSE i \in found : \A j \in found : i <= j]
            IN IF IsUtf8(h.v) THEN Some(h.v) ELSE None

\* --------------------------------------------------------- completion

\* "\n\r\n\r0".as_bytes()
TerminatorReversed == <<LF, CR, LF, CR, Zero>>

\* payload.into_iter().rev().take(5)
LastBytes(payload) == Take(Reverse(payload), Min(5, Len(payload)))

\* the while loop of packet_is_ended: the value of i when it stops
RECURSIVE MatchedPrefix(_, _, _)
MatchedPrefix(last_bytes, seq, i) ==
    IF i < Len(last_bytes)
    THEN IF i >= Len(seq) \/ seq[i + 1] # last_bytes[i + 1]
         THEN i
         ELSE MatchedPrefix(last_bytes, seq, i + 1)
    ELSE i

ChunkedTailSeen(payload) ==
    MatchedPrefix(LastBytes(payload), TerminatorReversed, 0) = Len(LastBytes(payload))

LengthReachedOrPassed(current_payload_size, length) == current_payload_size >= length

\* current_payload_size == length.unwrap().parse::<usize>().unwrap()
LengthReached(current_payload_size, length) == current_payload_size = length

EndsWithChunked(transfer_encoding) ==
    transfer_encoding # <<>> /\ transfer_encoding[Len(transfer_encoding)] = "chunked"

\* transfer_encoding.unwrap() == "chunked"
IsChunked(transfer_encoding) == transfer_encoding = CHUNKED

\* "true", "false", or "panic" (length.unwrap().parse::<usize>().unwrap())
packet_is_ended(payload, current_payload_size, headers, http_type, is_fin_set) ==
    LET length == get_header_value(CONTENT_LENGTH, headers)
        transfer_encoding == get_header_value(TRANSFER_ENCODING, headers)
    IN IF IsNone(length) /\ IsNone(transfer_encoding)
       THEN IF http_type = "Request" THEN "true"
            ELSE IF is_fin_set THEN "true" ELSE "false"
       ELSE IF IsSome(length) /\ IsNone(ParseUsize(Unwrap(length))) THEN "panic"
       ELSE IF IsSome(length)
               /\ LengthReached(current_payload_size, Unwrap(ParseUsize(Unwrap(length))))
            THEN "true"
       ELSE IF IsSome(transfer_encoding) /\ IsChunked(Unwrap(transfer_encoding))
               /\ ChunkedTailSeen(payload)
            THEN "true"
       ELSE "false"

\* ------------------------------------------------------- chunked merge

ChunkLengthDecimal(chars) == FromStrRadix(chars, DecDigit, 10)

\* usize::from_str_radix(&length, 16)
ChunkLength(chars) == FromStrRadix(chars, HexDigit, 16)

\* payload[index] with the code's 0-based index
At(payload, index) == payload[index + 1]
InBounds(payload, index) == index < Len(payload)

\* The inner loop: collects the size line up to CR LF.  Gives the index of
\* the CR and the characters, or a panic on an index out of bounds.
RECURSIVE ReadLength(_, _, _)
ReadLength(payload, index, length) ==
    IF ~InBounds(payload, index) THEN [panic |-> TRUE, index |-> index, length |-> length]
    ELSE IF At(payload, index) = CR /\ ~InBounds(payload, index + 1)
         THEN [panic |-> TRUE, index |-> index, length |-> length]
    ELSE IF At(payload, index) = CR /\ At(payload, index + 1) = LF
         THEN [panic |-> FALSE, index |-> index, length |-> length]
    ELSE ReadLength(payload, index + 1, Append(length, At(payload, index).n))

\* the last-chunk test, with its short-circuit && and its bounds checks:
\* "yes", "no" or "panic"
LastChunkAt(payload, index) ==
    LET want == <<Zero, CR, LF, CR, LF>>
        differ == {i \in 0..4 : ~InBounds(payload, index + i) \/ At(payload, index + i) # want[i + 1]}
        first == CHOOSE i \in differ : \A j \in differ : i <= j
    IN IF differ = {} THEN "yes"
       ELSE IF ~InBounds(payload, index + first) THEN "panic" ELSE "no"

Panicked == [panic |-> TRUE, merged |-> <<>>]

\* the outer loop of merge_chunks from `index` on
RECURSIVE MergeFrom(_, _, _)
MergeFrom(payload, index, merged) ==
    LET line == ReadLength(payload, index, <<>>)
        length == ChunkLength(line.length)
        data == line.index + 2
        next == data + Unwrap(length) + 2
        last == LastChunkAt(payload, next)
    IN IF line.panic \/ IsNone(length) THEN Panicked
       ELSE IF data + Unwrap(length) > Len(payload) THEN Panicked
       ELSE IF last = "panic" THEN Panicked
       ELSE IF last = "yes"
            THEN [panic |-> FALSE,
                  merged |-> merged \o SubSeq(payload, data + 1, data + Unwrap(length))]
       ELSE MergeFrom(payload, next, merged \o SubSeq(payload, data + 1, data + Unwrap(length)))

merge_chunks(payload) == MergeFrom(payload, 0, <<>>)

\* --------------------------------------------------- content decoding

\* A compressed stream is its content between an opening and a closing byte
\* of its format (the format's header and trailer).
Open(ext) == Byte(ext[1] \o "<")
Close(ext) == Byte(">" \o ext[1])
Formats == {GZIP, ZLIB, DEFLATE}
Compress(ext, x) == <<Open(ext)>> \o x \o <<Close(ext)>>

\* index of the byte closing the stream opened at payload[1], 0 if none
RECURSIVE MatchClose(_, _, _)
MatchClose(payload, i, depth) ==
    IF i > Len(payload) THEN 0
    ELSE IF \E f \in Formats : payload[i] = Open(f) THEN MatchClose(payload, i + 1, depth + 1)
    ELSE IF \E f \in Formats : payload[i] = Close(f)
         THEN IF depth = 1 THEN i ELSE MatchClose(payload, i + 1, depth - 1)
    ELSE MatchClose(payload, i + 1, depth)

\* GzDecoder / ZlibDecoder / DeflateDecoder ::new(payload).read_to_end(..):
\* the content of the stream of format ext at the front of payload; bytes
\* behind the stream are left unread.  Anything else is an Err.
Decoder(ext, payload) ==
    LET end == MatchClose(payload, 2, 1)
    IN IF payload # <<>> /\ payload[1] = Open(ext) /\ end # 0 /\ payload[end] = Close(ext)
       THEN [ok |-> TRUE, out |-> SubSeq(payload, 2, end - 1)]
       ELSE [ok |-> FALSE, out |-> <<>>]

\* encoding.split(", ")
RECURSIVE Split(_)
Split(encoding) ==
    LET seps == {i \in 1..Len(encoding) - 1 : encoding[i] = "," /\ encoding[i + 1] = " "}
        first == CHOOSE i \in seps : \A j \in seps : i <= j
    IN IF seps = {} THEN <<encoding>>
       ELSE <<Take(encoding, first - 1)>> \o Split(Drop(encoding, first + 1))

ExtensionsInOrder(encoding) == Split(encoding)

\* extensions.reverse()
Extensions(encoding) == Reverse(Split(encoding))

\* the for loop of decode_payload; payload is the caller's vector, which
\* every successful stage overwrites (payload.clone_from(&final_decoded))
\* (stages lists what each stage ran, read and wrote)
RECURSIVE DecodeLoop(_, _, _, _)
DecodeLoop(extensions, payload, final_decoded, stages) ==
    IF extensions = <<>>
    THEN [ok |-> TRUE, val |-> final_decoded, err |-> <<>>, payload |-> payload,
          stages |-> stages]
    ELSE LET ext == Head(extensions)
             stage == Decoder(ext, payload)
             read == final_decoded \o stage.out
         IN IF ext \notin Formats \/ ~stage.ok
            THEN [ok |-> FALSE, val |-> <<>>, err |-> ext, payload |-> payload,
                  stages |-> stages]
            ELSE DecodeLoop(Tail(extensions), read, read,
                            Append(stages, [ext |-> ext, in |-> payload, out |-> stage.out]))

decode_payload(payload, encoding) == DecodeLoop(Extensions(encoding), payload, <<>>, <<>>)

\* ------------------------------------------------------ classification

\* str::parse::<Mime>: type "/" subtype, then nothing or one parameter
Punctuation == {"/", ";", "=", ",", " "}
ParseMime(value) ==
    LET named == Len(value) >= 3 /\ value[2] = "/"
                 /\ value[1] \notin Punctuation /\ value[3] \notin Punctuation
        param == Drop(value, 3)
        one == Len(param) = 4 /\ param[1] = ";" /\ param[3] = "="
               /\ param[2] \notin Punctuation /\ param[4] \notin Punctuation
    IN IF named /\ param = <<>>
       THEN Some([type |-> value[1], subtype |-> value[3], charset |-> None])
       ELSE IF named /\ one
       THEN Some([type |-> value[1], subtype |-> value[3],
                  charset |-> IF param[2] = "charset" THEN Some(param[4]) ELSE None])
       ELSE None

\* Encoding::for_label: the labels encoding_rs knows, among those used here
KnownLabels == {"utf-8", "iso-8859-1"}

\* bytes that are no valid UTF-8: the invalid byte, and a compressed
\* stream's header and trailer
NotUtf8(e) == e = Invalid \/ \E f \in Formats : e = Open(f) \/ e = Close(f)
Bom == Byte("BOM")
Replacement == Byte("U+FFFD")

\* decoding with the replacement character put for what does not decode
Lossy(bytes) == [i \in 1..Len(bytes) |-> IF NotUtf8(bytes[i]) THEN Replacement ELSE bytes[i]]

\* Encoding::decode_with_bom_removal: (string, had_errors)
DecodeWithBomRemoval(label, payload) ==
    LET body == IF label = "utf-8" /\ payload # <<>> /\ payload[1] = Bom
                THEN Tail(payload) ELSE payload
    IN IF label = "utf-8"
       THEN [string |-> Lossy(body), had_errors |-> \E i \in 1..Len(body) : NotUtf8(body[i])]
       ELSE [string |-> body, had_errors |-> FALSE]

Content(tag, alg, data) == [tag |-> tag, alg |-> alg, data |-> data]
ContentPanic == Content("PANIC", <<>>, <<>>)

\* encoding is the Option of the failing token
get_http_type(mime, payload, encoding) ==
    IF IsSome(encoding) THEN Content("Encoded", Unwrap(encoding), payload)
    ELSE IF mime.type = "text"
    THEN IF IsSome(mime.charset)
         THEN IF Unwrap(mime.charset) \notin KnownLabels THEN ContentPanic
              ELSE LET encoded == DecodeWithBomRemoval(Unwrap(mime.charset), payload)
                   IN IF encoded.had_errors
                      THEN Content("TextMalformedDecoded", <<>>, encoded.string)
                      ELSE Content("TextCorrectlyDecoded", <<>>, encoded.string)
         ELSE Content("TextDefaultDecoded", <<>>, Lossy(payload))
    ELSE IF mime.type = "image" THEN Content("Image", <<>>, payload)
    ELSE IF mime.type = "multipart" THEN Content("Multipart", <<>>, payload)
    ELSE Content("Unknown", <<>>, payload)

IsEmptyNever(payload) == FALSE

\* payload.is_empty()
IsEmpty(payload) == payload = <<>>

parse_http_payload(payload_with_headers, start, headers) ==
    LET body == Drop(payload_with_headers, start)
        transfer_encoding == get_header_value(TRANSFER_ENCODING, headers)
        chunked == IsSome(transfer_encoding) /\ IsChunked(Unwrap(transfer_encoding))
        merged == merge_chunks(body)
        payload == IF chunked THEN merged.merged ELSE body
        content_type == get_header_value(CONTENT_TYPE, headers)
        mime == IF IsSome(content_type) THEN ParseMime(Unwrap(content_type)) ELSE None
        encoding == get_header_value(CONTENT_ENCODING, headers)
        result == decode_payload(payload, Unwrap(encoding))
    IN IF IsEmpty(body) THEN Content("None", <<>>, <<>>)
       ELSE IF chunked /\ merged.panic THEN ContentPanic
       ELSE IF IsNone(mime) THEN Content("Unknown", <<>>, payload)
       ELSE IF IsNone(encoding) THEN get_http_type(Unwrap(mime), payload, None)
       ELSE IF result.ok THEN get_http_type(Unwrap(mime), result.val, None)
       ELSE get_http_type(Unwrap(mime), result.payload, Some(result.err))

\* ------------------------------------------------------------ flow table

\* ((source address, source port), (destination address, destination port))
RequestFlow == <<<<"client", 49152>>, <<"server", HTTP_PORT>>>>
ResponseFlow == <<<<"server", HTTP_PORT>>, <<"client", 49152>>>>
HttpFlows == {RequestFlow, ResponseFlow}

source_port(key) == key[1][2]
dest_port(key) == key[2][2]

RemoveConnection(table, key) == [g \in DOMAIN table \ {key, Reverse(key)} |-> table[g]]

RemoveEntryNot(table, key) == table

\* parsers.remove(&key)
RemoveEntry(table, key) == [g \in DOMAIN table \ {key} |-> table[g]]

InsertEntry(table, key, packet) == [g \in DOMAIN table \cup {key} |->
                                       IF g # key THEN table[g] ELSE packet]

\* parsers.entry(key).and_modify(|payload| payload.append(packet)).or_insert(packet)
AppendEntry(table, key, packet) ==
    [g \in DOMAIN table \cup {key} |->
        IF g # key THEN table[g]
        ELSE IF key \in DOMAIN table THEN table[key] \o packet ELSE packet]

\* SerializableHttpRequestPacket::new / SerializableHttpResponsePacket::new
Artifact(http_type, current_payload, headers, parsed_payload) ==
    [type |-> IF http_type = "Request" THEN "HttpRequestPacket" ELSE "HttpResponsePacket",
     line |-> current_payload[1],
     headers |-> headers,
     payload |-> parsed_payload]

\* what a call saw and decided: its arguments, the header parse, the body
\* behind the header block and the verdict of packet_is_ended
\* (HTTP), and the buffer after the append and the iterations of the record
\* loop (TLS)
NoCall == [flow |-> <<>>, http_type |-> "", is_fin |-> FALSE, len |-> 0,
           st |-> "", headers |-> <<>>, payload |-> <<>>, ended |-> "",
           after |-> <<>>, loop |-> <<>>, hung |-> FALSE, thread |-> ""]

\* ---------------------------------------------------------------- TLS
\* The record parsers are those of the tls_parser crate (nom, streaming): a
\* parser that runs out of bytes gives Incomplete, and many1(complete(..))
\* turns that into an Error.

\* one byte of a TLS stream, with its value
Octet(i) == [k |-> "octet", n |-> "", v |-> <<i>>]
Value(e) == e.v[1]
Octets(s) == [i \in 1..Len(s) |-> Octet(s[i])]

\* TlsRecordType
ChangeCipherSpec == 20
Alert == 21
Handshake == 22
ApplicationData == 23
Heartbeat == 24

\* tls_parser::MAX_RECORD_LEN, 1 << 14
MAX_RECORD_LEN == 16384
HeaderLen == 5

be_u16(hi, lo) == Value(hi) * 256 + Value(lo)
be_u24(a, b, c) == (Value(a) * 256 + Value(b)) * 256 + Value(c)

\* parse_tls_record_header: record type, version, length
RecordHeader(i) ==
    [record_type |-> Value(i[1]), version |-> <<Value(i[2]), Value(i[3])>>,
     len |-> be_u16(i[4], i[5])]

NoHeader == [record_type |-> 0, version |-> <<0, 0>>, len |-> 0]
Parsed(st, rem, hdr, data) == [st |-> st, rem |-> rem, hdr |-> hdr, data |-> data]

\* parse_tls_raw_record(current_payload): the header, the length check, then
\* take(hdr.len)
parse_tls_raw_record(i) ==
    IF Len(i) < HeaderLen THEN Parsed("Incomplete", <<>>, NoHeader, <<>>)
    ELSE LET hdr == RecordHeader(i)
         IN IF hdr.len > MAX_RECORD_LEN THEN Parsed("Error", <<>>, hdr, <<>>)
            ELSE IF Len(i) - HeaderLen < hdr.len THEN Parsed("Incomplete", <<>>, hdr, <<>>)
            ELSE Parsed("Ok", Drop(i, HeaderLen + hdr.len), hdr,
                        SubSeq(i, HeaderLen + 1, HeaderLen + hdr.len))

\* parse_tls_encrypted(current_payload): the same header, length check and
\* take, the body kept as the encrypted blob
parse_tls_encrypted(i) == parse_tls_raw_record(i)

\* handshake message types whose body is taken as it is: ServerKeyExchange,
\* ServerDone, CertificateVerify, ClientKeyExchange, Finished.  Of the other
\* types the streams of this model hold only undefined ones, which are an
\* Error.
OpaqueHandshake == {12, 14, 15, 16, 20}

\* many1(complete(parse_tls_message_handshake)): the messages parsed before
\* the first that does not parse
RECURSIVE HandshakeMessages(_)
HandshakeMessages(data) ==
    IF Len(data) < 4 THEN <<>>
    ELSE LET ht == Value(data[1])
             hl == be_u24(data[2], data[3], data[4])
         IN IF Len(data) - 4 < hl \/ ht \notin OpaqueHandshake THEN <<>>
            ELSE <<[msg |-> "Handshake", type |-> ht, body |-> SubSeq(data, 5, 4 + hl)]>>
                 \o HandshakeMessages(Drop(data, 4 + hl))

\* many1(complete(parse_tls_message_alert)): severity and description
AlertMessages(data) ==
    [j \in 1..(Len(data) \div 2) |->
        [msg |-> "Alert", type |-> Value(data[2 * j - 1]), body |-> <<data[2 * j]>>]]

\* many1(complete(parse_tls_message_changecipherspec)): bytes of value 1
RECURSIVE ChangeCipherSpecMessages(_)
ChangeCipherSpecMessages(data) ==
    IF data = <<>> \/ Value(data[1]) # 1 THEN <<>>
    ELSE <<[msg |-> "ChangeCipherSpec", type |-> 1, body |-> <<>>]>>
         \o ChangeCipherSpecMessages(Tail(data))

Many1(messages) ==
    IF messages = <<>> THEN [st |-> "Error", messages |-> <<>>]
    ELSE [st |-> "Ok", messages |-> messages]

\* parse_tls_message_heartbeat(i, hdr.len): type, payload length, payload
HeartbeatMessage(data, len) ==
    IF Len(data) < 3 THEN [st |-> "Incomplete", messages |-> <<>>]
    ELSE IF len < 3 THEN [st |-> "Error", messages |-> <<>>]
    ELSE IF Len(data) - 3 < be_u16(data[2], data[3])
    THEN [st |-> "Incomplete", messages |-> <<>>]
    ELSE [st |-> "Ok",
          messages |-> <<[msg |-> "Heartbeat", type |-> Value(data[1]),
                          body |-> SubSeq(data, 4, 3 + be_u16(data[2], data[3]))]>>]

\* parse_tls_record_with_header(record.data, &record.hdr)
parse_tls_record_with_header(data, hdr) ==
    IF hdr.record_type = ChangeCipherSpec THEN Many1(ChangeCipherSpecMessages(data))
    ELSE IF hdr.record_type = Alert THEN Many1(AlertMessages(data))
    ELSE IF hdr.record_type = Handshake THEN Many1(HandshakeMessages(data))
    ELSE IF hdr.record_type = ApplicationData
    THEN Many1(IF data = <<>> THEN <<>>
               ELSE <<[msg |-> "ApplicationData", type |-> 0, body |-> data]>>)
    ELSE IF hdr.record_type = Heartbeat THEN HeartbeatMessage(data, hdr.len)
    ELSE [st |-> "Error", messages |-> <<>>]

\* ------------------------------------------------------------- handlers

\* A call is given the thread's table and gives back the table as it leaves
\* it, the result holder, and what it saw and decided (call); report is the
\* artifact it wrote, if any.
handle_http_packet(table, key, http_type, is_fin, packet) ==
    LET appended == AppendEntry(table, key, packet)
        current_payload == appended[key]
        status == HttpParse(current_payload, http_type)
        start == status.start
        current_payload_size == Len(current_payload) - start
        ended == IF status.st = "Complete"
                 THEN packet_is_ended(Drop(current_payload, start), current_payload_size,
                                      status.headers, http_type, is_fin)
                 ELSE "false"
        parsed_payload == parse_http_payload(current_payload, start, status.headers)
        panic == ended = "panic" \/ (ended = "true" /\ parsed_payload = ContentPanic)
        done == ended = "true" /\ ~panic
        artifact == Artifact(http_type, current_payload, status.headers, parsed_payload)
    IN [parsers |-> IF done THEN RemoveEntry(appended, key) ELSE appended,
        parsed_packet |-> IF done THEN Some(artifact) ELSE None,
        report |-> IF done THEN Some([raw |-> current_payload, artifact |-> artifact])
                   ELSE None,
        aborted |-> panic,
        call |-> [NoCall EXCEPT
                   !.flow = key, !.http_type = http_type, !.is_fin = is_fin,
                   !.len = Len(packet), !.st = status.st, !.headers = status.headers,
                   !.payload = IF status.st = "Complete" THEN Drop(current_payload, start)
                               ELSE <<>>,
                   !.ended = ended]]

\* what the call prints for a record: "[i]: TLS Record Packet" with a
\* message of the record, "[]: TLS Encrypted Packet" (index 0) without
Line(index, hdr, msg) == [index |-> index, hdr |-> hdr, msg |-> msg]

\* one iteration of the loop: the buffer it started on, the results of the
\* raw parse and of the parse of the body, the lines printed, the length of
\* the prefix drained, and how it left: "continue", "break" (the entry
\* stays) or "evict" (parsers.remove, then break)
Iteration(front, hdr, raw, decode, printed, end, outcome) ==
    [front |-> front, hdr |-> hdr, raw |-> raw, decode |-> decode, printed |-> printed,
     end |-> end, outcome |-> outcome]

ConsumedBody(current_payload, rem, hdr) == hdr.len

\* let end = current_payload.len() - rem.len()
Consumed(current_payload, rem, hdr) == Len(current_payload) - Len(rem)

TlsIteration(current_payload) ==
    LET result == parse_tls_raw_record(current_payload)
        hdr == result.hdr
        encrypted == parse_tls_encrypted(current_payload)
        plaintext == parse_tls_record_with_header(result.data, hdr)
        lines == [i \in 1..Len(plaintext.messages) |-> Line(i, hdr, plaintext.messages[i])]
    IN IF result.st = "Ok"
       THEN IF hdr.record_type = ApplicationData
            THEN IF encrypted.st = "Ok"
                 THEN IF encrypted.rem = <<>>
                      THEN Iteration(current_payload, hdr, "Ok", "Ok",
                                     <<Line(0, encrypted.hdr, <<>>)>>, 0, "evict")
                      ELSE Iteration(current_payload, hdr, "Ok", "Ok",
                                     <<Line(0, encrypted.hdr, <<>>)>>,
                                     Consumed(current_payload, encrypted.rem, encrypted.hdr),
                                     "continue")
                 ELSE Iteration(current_payload, hdr, "Ok", encrypted.st, <<>>, 0, "evict")
            ELSE IF plaintext.st = "Ok"
                 THEN IF result.rem = <<>>
                      THEN Iteration(current_payload, hdr, "Ok", "Ok", lines, 0, "evict")
                      ELSE Iteration(current_payload, hdr, "Ok", "Ok", lines,
                                     Consumed(current_payload, result.rem, hdr), "continue")
                 ELSE IF plaintext.st = "Incomplete"
                 THEN Iteration(current_payload, hdr, "Ok", "Incomplete", <<>>, 0, "break")
                 ELSE Iteration(current_payload, hdr, "Ok", plaintext.st, <<>>, 0, "evict")
       ELSE IF result.st = "Incomplete"
       THEN Iteration(current_payload, hdr, "Incomplete", "", <<>>, 0, "break")
       ELSE Iteration(current_payload, hdr, result.st, "", <<>>, 0, "evict")

\* loop { .. }: an iteration that continues without draining a byte runs
\* again on the same buffer, and so for ever (hung)
RECURSIVE TlsLoop(_, _)
TlsLoop(current_payload, loop) ==
    LET iteration == TlsIteration(current_payload)
        ran == Append(loop, iteration)
    IN IF iteration.outcome # "continue"
       THEN [present |-> iteration.outcome = "break", buffer |-> current_payload,
             loop |-> ran, hung |-> FALSE]
       ELSE IF iteration.end = 0
       THEN [present |-> TRUE, buffer |-> current_payload, loop |-> ran, hung |-> TRUE]
       ELSE TlsLoop(Drop(current_payload, iteration.end), ran)

\* The result holder is not written.  A call that hangs ends the run as a
\* panic does.
handle_tls_packet(table, key, packet) ==
    LET appended == AppendEntry(table, key, packet)
        ran == TlsLoop(appended[key], <<>>)
    IN [parsers |-> IF ran.present THEN [appended EXCEPT ![key] = ran.buffer]
                    ELSE RemoveEntry(appended, key),
        parsed_packet |-> None,
        report |-> None,
        aborted |-> ran.hung,
        call |-> [NoCall EXCEPT !.flow = key, !.len = Len(packet), !.after = appended[key],
                                !.loop = ran.loop, !.hung = ran.hung]]

handle_application_protocol(table, key, is_fin, packet) ==
    IF source_port(key) = HTTP_PORT \/ dest_port(key) = HTTP_PORT
    THEN handle_http_packet(table, key,
                            IF dest_port(key) = HTTP_PORT THEN "Request" ELSE "Response",
                            is_fin, packet)
    ELSE IF source_port(key) = TLS_PORT \/ dest_port(key) = TLS_PORT
    THEN handle_tls_packet(table, key, packet)
    ELSE [parsers |-> table, parsed_packet |-> None, report |-> None, aborted |-> FALSE,
          call |-> [NoCall EXCEPT !.flow = key, !.is_fin = is_fin, !.len = Len(packet)]]

\* The capture hands the next len bytes of a flow to the parser.
Deliver(key, len, is_fin) ==
    /\ ~aborted
    /\ pos[key] + len <= Len(stream[key])
    /\ \E returned \in {handle_application_protocol(
                             parsers, key, is_fin,
                             SubSeq(stream[key], pos[key] + 1, pos[key] + len))} :
          /\ parsers' = returned.parsers
          /\ parsed_packet' = returned.parsed_packet
          /\ aborted' = returned.aborted
          /\ call' = returned.call
          /\ reports' = IF IsSome(returned.report)
                        THEN Append(reports, [flow |-> key, at |-> pos[key] + len,
                                              raw |-> Unwrap(returned.report).raw,
                                              artifact |-> Unwrap(returned.report).artifact])
                        ELSE reports
    /\ pos' = [pos EXCEPT ![key] = @ + len]
    /\ UNCHANGED <<stream, input, output, workers, routed>>

\* --------------------------------------------------------------- corpus

RECURSIVE Decimal(_)
Decimal(n) ==
    LET digit == CHOOSE c \in DOMAIN DecDigit : DecDigit[c] = n % 10
    IN IF n < 10 THEN <<digit>> ELSE Append(Decimal(n \div 10), digit)

ContentLength(n) == Hdr(CONTENT_LENGTH, Decimal(n))
ContentLengthBad == Hdr(CONTENT_LENGTH, <<"1", "x">>)
ContentLengthLower == Hdr("content-length", <<"1">>)
TransferChunked == Hdr(TRANSFER_ENCODING, CHUNKED)
TransferOther == Hdr(TRANSFER_ENCODING, <<"gzip", ",", " ", "chunked">>)
TransferIdentity == Hdr(TRANSFER_ENCODING, <<"identity">>)
TypeText == Hdr(CONTENT_TYPE, <<"text", "/", "plain">>)
TypeTextUtf8 == Hdr(CONTENT_TYPE, <<"text", "/", "plain", ";", "charset", "=", "utf-8">>)
TypeTextUnknownCharset == Hdr(CONTENT_TYPE, <<"text", "/", "plain", ";", "charset", "=", "klingon">>)

XBody(n) == [i \in 1..n |-> X]
Terminator == <<Zero, CR, LF, CR, LF>>
Chunk(size, data) == Bytes(size) \o <<CR, LF>> \o data \o <<CR, LF>>

FramingHeaders ==
    {<<>>, <<ContentLengthBad>>, <<ContentLengthLower>>, <<TransferChunked>>, <<TransferOther>>,
     <<TransferIdentity>>}
    \cup {<<ContentLength(n)>> : n \in 0..MaxLength}
    \cup {<<ContentLength(n), TransferChunked>> : n \in 1..MaxLength}

Bodies ==
    {XBody(n) : n \in 0..MaxBody}
    \cup {Terminator, <<CR, LF>>, Chunk(<<"1">>, <<X>>) \o Terminator}

StartLine(key) == IF dest_port(key) = HTTP_PORT THEN RequestLine ELSE StatusLine

Message(key, headers, body) == <<StartLine(key)>> \o headers \o <<EndOfHeaders>> \o body

\* every framing with every body
FramedMessages(key) == {Message(key, f, b) : f \in FramingHeaders, b \in Bodies}

\* bodies to classify, of the declared length or delimited by the close
TypedMessages(key) ==
    {Message(key, f \o t, XBody(n)) :
        f \in {<<>>, <<ContentLength(1)>>},
        t \in {<<TypeText>>, <<TypeTextUtf8>>, <<TypeTextUnknownCharset>>},
        n \in 0..1}

\* a message and the next one on the same flow
Pipelined(key) ==
    {Message(key, f, b) \o Message(key, <<>>, <<>>) :
        f \in {<<>>, <<ContentLength(1)>>, <<TransferChunked>>},
        b \in {XBody(n) : n \in 0..2} \cup {Chunk(<<"1">>, <<X>>) \o Terminator}}

\* header blocks that never complete or do not parse
Broken(key) ==
    {<<StartLine(key), Junk, EndOfHeaders>>, <<StartLine(key), ContentLength(0)>>,
     <<X, StartLine(key), EndOfHeaders>>}

Corpus(key) == FramedMessages(key) \cup TypedMessages(key) \cup Pipelined(key) \cup Broken(key)

\* ------------------------------------------------------- specification

NotApplied == <<>>

Init ==
    /\ \E key \in HttpFlows : \E s \in Corpus(key) :
          /\ stream = (key :> s)
          /\ pos = (key :> 0)
    /\ parsers = <<>>
    /\ parsed_packet = None
    /\ call = NoCall
    /\ reports = <<>>
    /\ aborted = FALSE
    /\ input = <<>>
    /\ output = NotApplied
    /\ workers = <<>>
    /\ routed = <<>>

\* a segment carries up to MaxSeg bytes, or all that is left of the stream
Segments(key) == (0..MaxSeg) \cup {Len(stream[key]) - pos[key]}

Next ==
    \E key \in DOMAIN stream : \E len \in Segments(key) : \E is_fin \in BOOLEAN :
        Deliver(key, len, is_fin)

Spec == Init /\ [][Next]_vars

\* ------------------------------------------------------------ TLS flows

TlsClientFlow == <<<<"client", 49153>>, <<"server", TLS_PORT>>>>
TlsServerFlow == <<<<"server", TLS_PORT>>, <<"client", 49153>>>>
TlsFlows == {TlsClientFlow, TlsServerFlow}

\* a record: type, version 3.3, the length of the body, the body
Record(record_type, body) ==
    Octets(<<record_type, 3, 3, Len(body) \div 256, Len(body) % 256>>) \o Octets(body)

ServerDone == <<14, 0, 0, 0>>
Finished == <<20, 0, 0, 1, 7>>

HandshakeRecord == Record(Handshake, ServerDone)
\* records whose body parses
GoodRecords ==
    {HandshakeRecord, Record(Handshake, ServerDone \o Finished), Record(Alert, <<1, 0>>),
     Record(ChangeCipherSpec, <<1>>), Record(Heartbeat, <<1, 0, 1, 7>>)}
    \cup {Record(ApplicationData, [i \in 1..n |-> 7]) : n \in 0..1}
\* bodies that do not parse, or not yet, and a record of no known type
BadRecords ==
    {Record(Handshake, <<99, 0, 0, 0>>), Record(Handshake, <<14, 0, 0>>),
     Record(Alert, <<1>>), Record(ChangeCipherSpec, <<2>>),
     Record(Heartbeat, <<1, 0, 5, 7>>), Record(Heartbeat, <<>>), Record(99, <<>>)}
\* the length is over MAX_RECORD_LEN
TooLarge == Octets(<<Handshake, 3, 3, 65, 0>>)
Garbage == Octets(<<9, 9, 9>>)
\* what follows the last whole record
Tails == {<<>>, Garbage, TooLarge, Octets(<<Handshake, 3, 3, 0, 4, 14>>)}

TlsCorpus ==
    {r \o t : r \in GoodRecords \cup BadRecords, t \in Tails}
    \cup {r \o q \o t : r \in GoodRecords,
                        q \in {HandshakeRecord, Record(ApplicationData, <<>>),
                               Record(Alert, <<1>>), Record(Heartbeat, <<1, 0, 5, 7>>)},
                        t \in {<<>>, Garbage}}
    \cup {TooLarge, Garbage}

InitTls ==
    /\ \E key \in TlsFlows : \E s \in TlsCorpus :
          /\ stream = (key :> s)
          /\ pos = (key :> 0)
    /\ parsers = <<>>
    /\ parsed_packet = None
    /\ call = NoCall
    /\ reports = <<>>
    /\ aborted = FALSE
    /\ input = <<>>
    /\ output = NotApplied
    /\ workers = <<>>
    /\ routed = <<>>

SpecTls == InitTls /\ [][Next]_vars

\* a flow of either protocol
SpecFlows == (Init \/ InitTls) /\ [][Next]_vars

\* ------------------------------------------------------- worker threads

Threads == {"worker1", "worker2"}

StaticTable(tables, thread, table) == [t \in DOMAIN tables |-> table]

\* thread_local!: the table a call leaves behind is that of its own thread
LocalTable(tables, thread, table) == [tables EXCEPT ![thread] = table]

\* The capture hands the next len bytes of a flow to the parser, on one of
\* the worker threads.
DeliverOn(thread, key, len, is_fin) ==
    /\ ~aborted
    /\ pos[key] + len <= Len(stream[key])
    /\ \E returned \in {handle_application_protocol(
                             workers[thread], key, is_fin,
                             SubSeq(stream[key], pos[key] + 1, pos[key] + len))} :
          /\ workers' = LocalTable(workers, thread, returned.parsers)
          /\ parsed_packet' = returned.parsed_packet
          /\ aborted' = returned.aborted
          /\ call' = [returned.call EXCEPT !.thread = thread]
          /\ reports' = IF IsSome(returned.report)
                        THEN Append(reports, [flow |-> key, at |-> pos[key] + len,
                                              raw |-> Unwrap(returned.report).raw,
                                              artifact |-> Unwrap(returned.report).artifact])
                        ELSE reports
    /\ pos' = [pos EXCEPT ![key] = @ + len]
    /\ routed' = [routed EXCEPT ![thread] = @ + len]
    /\ UNCHANGED <<stream, parsers, input, output>>

\* one flow whose segments go to either worker
ThreadCorpus(key) ==
    IF key \in HttpFlows
    THEN {Message(key, <<ContentLength(n)>>, XBody(n)) : n \in 0..MaxLength}
         \cup {Message(key, <<>>, <<>>) \o Message(key, <<>>, <<>>)}
    ELSE {Record(ApplicationData, <<>>) \o Garbage}

InitThreads ==
    /\ \E key \in HttpFlows \cup TlsFlows : \E s \in ThreadCorpus(key) :
          /\ stream = (key :> s)
          /\ pos = (key :> 0)
    /\ parsers = <<>>
    /\ parsed_packet = None
    /\ call = NoCall
    /\ reports = <<>>
    /\ aborted = FALSE
    /\ input = <<>>
    /\ output = NotApplied
    /\ workers = [t \in Threads |-> <<>>]
    /\ routed = [t \in Threads |-> 0]

NextThreads ==
    \E thread \in Threads : \E key \in DOMAIN stream : \E len \in Segments(key) :
    \E is_fin \in BOOLEAN :
        DeliverOn(thread, key, len, is_fin)

SpecThreads == InitThreads /\ [][NextThreads]_vars

Idle ==
    /\ stream = <<>> /\ pos = <<>> /\ parsers = <<>> /\ parsed_packet = None
    /\ call = NoCall /\ reports = <<>> /\ aborted = FALSE
    /\ workers = <<>> /\ routed = <<>>

\* ---------------------------------------------------- merge_chunks alone

Wiki == Bytes(<<"W", "i", "k", "i">>)
Pedia == Bytes(<<"p", "e", "d", "i", "a">>)

HexLower == <<"0", "1", "2", "3", "4", "5", "6", "7", "8", "9", "a", "b", "c", "d", "e", "f">>
HexUpper == <<"0", "1", "2", "3", "4", "5", "6", "7", "8", "9", "A", "B", "C", "D", "E", "F">>

RECURSIVE HexChars(_, _)
HexChars(n, digits) ==
    IF n < 16 THEN <<digits[n + 1]>>
    ELSE Append(HexChars(n \div 16, digits), digits[(n % 16) + 1])

\* the ways a chunk states its size n
SizeLines(n) == {HexChars(n, HexLower), HexChars(n, HexUpper), <<"0">> \o HexChars(n, HexUpper)}

DataBytes == {X, CR, LF, Zero}
ShortData == UNION {[1..n -> DataBytes] : n \in 1..MaxChunk}
LongData == {Wiki, Pedia, Terminator, XBody(10), XBody(11)}

\* a chunk is its size line and its data, of one byte at least
ChunkOf(data) == UNION {{[size |-> l, data |-> d] : l \in SizeLines(Len(d))} : d \in data}

ChunkLists ==
    {<<c>> : c \in ChunkOf(ShortData \cup LongData)}
    \cup {<<c, d>> : c \in ChunkOf(ShortData \cup LongData), d \in ChunkOf(LongData \cup {<<X>>})}
    \cup {<<c, d, e>> : c \in ChunkOf({Wiki}), d \in ChunkOf({Pedia}), e \in ChunkOf({<<X>>, Terminator})}

RECURSIVE Encode(_)
Encode(chunks) ==
    IF chunks = <<>> THEN Terminator
    ELSE Chunk(Head(chunks).size, Head(chunks).data) \o Encode(Tail(chunks))

RECURSIVE Data(_)
Data(chunks) == IF chunks = <<>> THEN <<>> ELSE Head(chunks).data \o Data(Tail(chunks))

\* bodies that are no chunk sequence
Unchunked ==
    {Terminator, <<X>> \o Terminator, Chunk(<<"1">>, <<X>>), Chunk(<<"g">>, <<X>>) \o Terminator,
     Chunk(<<"2">>, <<X>>) \o Terminator, <<CR, LF>>, <<LF>>, Chunk(<<"1">>, <<X>>) \o <<Zero, CR, LF>>}

InitMerge ==
    /\ Idle
    /\ \/ \E chunks \in ChunkLists :
             input = [wellformed |-> TRUE, chunks |-> chunks, payload |-> Encode(chunks)]
       \/ \E payload \in Unchunked :
             input = [wellformed |-> FALSE, chunks |-> <<>>, payload |-> payload]
    /\ output = NotApplied

MergeChunks ==
    /\ output = NotApplied
    /\ output' = Some(merge_chunks(input.payload))
    /\ UNCHANGED <<stream, pos, parsers, parsed_packet, call, reports, aborted, input,
                 workers, routed>>

SpecMerge == InitMerge /\ [][MergeChunks]_vars

\* -------------------------------------------------- decode_payload alone

\* Most tokens of a Content-Encoding value, and most compressions of a payload.
MaxStages == 2

Brotli == <<"br">>
Tokens == Formats \cup {Brotli}

\* the header value that lists the tokens, separated by ", "
RECURSIVE Listing(_)
Listing(tokens) ==
    IF Len(tokens) = 1 THEN tokens[1]
    ELSE tokens[1] \o <<",", " ">> \o Listing(Tail(tokens))

\* x compressed with applied[1] first and applied[Len(applied)] last
RECURSIVE Layered(_, _)
Layered(applied, x) ==
    IF applied = <<>> THEN x
    ELSE Compress(applied[Len(applied)], Layered(Take(applied, Len(applied) - 1), x))

TokenLists == UNION {[1..k -> Tokens] : k \in 1..MaxStages}
FormatLists == UNION {[1..k -> Formats] : k \in 0..MaxStages}
Plain == {<<X>>, <<X, Zero>>}

InitDecode ==
    /\ Idle
    /\ \E tokens \in TokenLists : \E applied \in FormatLists : \E x \in Plain :
          input = [tokens |-> tokens, encoding |-> Listing(tokens),
                   applied |-> applied, plain |-> x, payload |-> Layered(applied, x)]
    /\ output = NotApplied

DecodePayload ==
    /\ output = NotApplied
    /\ output' = Some(decode_payload(input.payload, input.encoding))
    /\ UNCHANGED <<stream, pos, parsers, parsed_packet, call, reports, aborted, input,
                 workers, routed>>

SpecDecode == InitDecode /\ [][DecodePayload]_vars


\* ---------------------------------------------- parse_http_payload alone

TypeImage == Hdr(CONTENT_TYPE, <<"image", "/", "png">>)
TypeMultipart == Hdr(CONTENT_TYPE, <<"multipart", "/", "form-data">>)
TypeJson == Hdr(CONTENT_TYPE, <<"application", "/", "json">>)
TypeNoMime == Hdr(CONTENT_TYPE, <<"text">>)

TypeHeaders ==
    {<<>>, <<TypeText>>, <<TypeTextUtf8>>, <<TypeImage>>, <<TypeMultipart>>, <<TypeJson>>,
     <<TypeNoMime>>}

TransferHeaders == {<<>>, <<TransferChunked>>, <<TransferOther>>}

\* the bytes behind the header block that carry the body under the transfer
\* coding: one chunk and the last chunk, or for an empty body nothing or the
\* last chunk alone
Wires(transfer, body) ==
    IF transfer # <<TransferChunked>> THEN {body}
    ELSE IF body = <<>> THEN {<<>>, Terminator}
    ELSE {Chunk(HexChars(Len(body), HexLower), body) \o Terminator}

\* a message body and the headers that describe it: tokens are those of
\* Content-Encoding (none: no such header), applied the compressions the
\* body went through, wire the bytes behind the header block
InitPayload ==
    /\ Idle
    /\ \E type \in TypeHeaders : \E tokens \in TokenLists \cup {<<>>} :
       \E applied \in FormatLists : \E x \in Plain \cup {<<>>} :
       \E transfer \in TransferHeaders : \E wire \in Wires(transfer, Layered(applied, x)) :
          /\ x = <<>> => applied = <<>>
          /\ input = [headers |-> transfer \o type
                                     \o (IF tokens = <<>> THEN <<>>
                                         ELSE <<Hdr(CONTENT_ENCODING, Listing(tokens))>>),
                      tokens |-> tokens, applied |-> applied, plain |-> x,
                      body |-> Layered(applied, x), wire |-> wire]
    /\ output = NotApplied

ParseHttpPayload ==
    /\ output = NotApplied
    /\ LET payload_with_headers == Message(RequestFlow, input.headers, input.wire)
           status == HttpParse(payload_with_headers, "Request")
       IN output' = Some(parse_http_payload(payload_with_headers, status.start, status.headers))
    /\ UNCHANGED <<stream, pos, parsers, parsed_packet, call, reports, aborted, input,
                 workers, routed>>

SpecPayload == InitPayload /\ [][ParseHttpPayload]_vars

\* --------------------------------------------------- get_http_type alone

Mimes ==
    {[type |-> t, subtype |-> "any", charset |-> c] :
        t \in {"text", "image", "multipart", "application"},
        c \in {None, Some("utf-8"), Some("iso-8859-1"), Some("klingon")}}

Payloads == {<<X>>, <<X, Invalid>>, <<Bom, X>>, Compress(GZIP, <<X>>)}

InitType ==
    /\ Idle
    /\ \E mime \in Mimes : \E payload \in Payloads :
       \E encoding \in {None} \cup {Some(t) : t \in Tokens} :
          input = [mime |-> mime, payload |-> payload, encoding |-> encoding]
    /\ output = NotApplied

GetHttpType ==
    /\ output = NotApplied
    /\ output' = Some(get_http_type(input.mime, input.payload, input.encoding))
    /\ UNCHANGED <<stream, pos, parsers, parsed_packet, call, reports, aborted, input,
                 workers, routed>>

SpecType == InitType /\ [][GetHttpType]_vars

\* ------------------------------------------------- transport handlers
\* The packet views are those of the pnet crate: new(packet) is None when
\* the slice is shorter than the fixed header of the view, and the getters
\* read the header fields at their offsets.

\* Most bytes of a transport slice.
MaxPacket == 21

\* minimum_packet_size() of the views
UdpHeaderLen == 8
TcpHeaderLen == 20
IcmpHeaderLen == 4
EchoHeaderLen == 8
Icmpv6HeaderLen == 4

\* IcmpTypes
EchoReply == 0
EchoRequest == 8
DestinationUnreachable == 3

\* XxxPacket::new(packet)
New(minimum_packet_size, packet) ==
    IF Len(packet) < minimum_packet_size THEN None ELSE Some(packet)

get_icmp_type(packet) == Value(packet[1])

\* what a handler leaves in parsed_packet's transport layer, or its panic
Layer(variant, packet) == [panic |-> FALSE, layer |-> Some([variant |-> variant, packet |-> packet])]
MalformedPacket(text) == [panic |-> FALSE, layer |-> Some([variant |-> "MalformedPacket", packet |-> text])]
UnwrapNone == [panic |-> TRUE, layer |-> None]

handle_udp_packet(packet) ==
    IF IsSome(New(UdpHeaderLen, packet)) THEN Layer("UdpPacket", packet)
    ELSE MalformedPacket("Malformed UDP Packet")

handle_tcp_packet(packet) ==
    IF IsSome(New(TcpHeaderLen, packet)) THEN Layer("TcpPacket", packet)
    ELSE MalformedPacket("Malformed TCP Packet")

handle_icmp_packet(packet) ==
    IF IsSome(New(IcmpHeaderLen, packet))
    THEN IF get_icmp_type(packet) = EchoReply
         THEN IF IsSome(New(EchoHeaderLen, packet)) THEN Layer("EchoReplyPacket", packet)
              ELSE UnwrapNone
         ELSE IF get_icmp_type(packet) = EchoRequest
         THEN IF IsSome(New(EchoHeaderLen, packet)) THEN Layer("EchoRequestPacket", packet)
              ELSE UnwrapNone
         ELSE Layer("IcmpPacket", packet)
    ELSE MalformedPacket("Malformed ICMP Packet")

handle_icmpv6_packet(packet) ==
    IF IsSome(New(Icmpv6HeaderLen, packet)) THEN Layer("Icmpv6Packet", packet)
    ELSE MalformedPacket("Malformed ICMPv6 Packet")

Protocols == {"Udp", "Tcp", "Icmp", "Icmpv6", "Igmp"}

handle_transport_protocol(protocol, packet) ==
    IF protocol = "Udp" THEN handle_udp_packet(packet)
    ELSE IF protocol = "Tcp" THEN handle_tcp_packet(packet)
    ELSE IF protocol = "Icmp" THEN handle_icmp_packet(packet)
    ELSE IF protocol = "Icmpv6" THEN handle_icmpv6_packet(packet)
    ELSE [panic |-> FALSE, layer |-> None]

\* slices of every length up to MaxPacket: a first byte (the ICMP type) and
\* zeroes
Slices ==
    {<<>>} \cup {Octets(<<t>> \o [i \in 1..(n - 1) |-> 0]) :
                    t \in {EchoReply, EchoRequest, DestinationUnreachable}, n \in 1..MaxPacket}

InitTransport ==
    /\ Idle
    /\ \E protocol \in Protocols : \E packet \in Slices :
          input = [protocol |-> protocol, packet |-> packet]
    /\ output = NotApplied

HandleTransport ==
    /\ output = NotApplied
    /\ output' = Some(handle_transport_protocol(input.protocol, input.packet))
    /\ UNCHANGED <<stream, pos, parsers, parsed_packet, call, reports, aborted, input,
                 workers, routed>>

SpecTransport == InitTransport /\ [][HandleTransport]_vars

\* --------------------------------------- both directions of a connection

\* a second connection of another client to the same server
OtherFlow == <<<<"client", 49154>>, <<"server", HTTP_PORT>>>>

PairCorpus(key) ==
    IF key \in HttpFlows
    THEN {Message(key, <<ContentLength(1)>>, XBody(1)), Message(key, <<>>, <<>>),
          <<StartLine(key), ContentLength(0)>>}
    ELSE {Record(ApplicationData, <<7>>), Record(ApplicationData, <<>>) \o Garbage,
          HandshakeRecord \o Octets(<<Handshake>>)}

\* the two directions of one connection, and a flow of another connection,
\* in one table
InitPair ==
    /\ \E pair \in {<<RequestFlow, ResponseFlow>>, <<TlsClientFlow, TlsServerFlow>>} :
       \E s \in PairCorpus(pair[1]) : \E r \in PairCorpus(pair[2]) :
          /\ stream = (pair[1] :> s) @@ (pair[2] :> r) @@ (OtherFlow :> <<RequestLine>>)
          /\ pos = (pair[1] :> 0) @@ (pair[2] :> 0) @@ (OtherFlow :> 0)
    /\ parsers = <<>>
    /\ parsed_packet = None
    /\ call = NoCall
    /\ reports = <<>>
    /\ aborted = FALSE
    /\ input = <<>>
    /\ output = NotApplied
    /\ workers = <<>>
    /\ routed = <<>>

SpecPair == InitPair /\ [][Next]_vars

\* ------------------------------------------------------------- claims

Reported == IsSome(parsed_packet)
CallLength == get_header_value(CONTENT_LENGTH, call.headers)
CallTransferEncoding == get_header_value(TRANSFER_ENCODING, call.headers)
HeadersParsed == call.st = "Complete"

\* position in the stream of the last byte of the flow's last reported message
LastReportAt(key) ==
    LET mine == {i \in 1..Len(reports) : reports[i].flow = key}
    IN IF mine = {} THEN 0 ELSE reports[CHOOSE i \in mine : \A j \in mine : j <= i].at

\* everything delivered on the flow since its last reported message
Accumulated(key) == SubSeq(stream[key], LastReportAt(key) + 1, pos[key])

BufferKept == /\ call.flow \in DOMAIN parsers
              /\ parsers[call.flow] = Accumulated(call.flow)

\* C1: a message with Content-Length: N is reported by the call if and only
\* if exactly N bytes are buffered behind the header block; otherwise
\* nothing is reported and the buffer is kept.
C1_ContentLengthExact ==
    (HeadersParsed /\ IsSome(CallLength) /\ IsSome(ParseUsize(Unwrap(CallLength)))) =>
        LET N == Unwrap(ParseUsize(Unwrap(CallLength)))
        IN /\ Reported <=> Len(call.payload) = N
           /\ Len(call.payload) # N => ~Reported /\ BufferKept

\* C2: with Transfer-Encoding: chunked, packet_is_ended says "ended" exactly
\* when the last 5 bytes of the body are 0 CR LF CR LF; a body of fewer
\* than 5 bytes (an empty one too) is never ended.
C2_ChunkedTerminator ==
    (HeadersParsed /\ IsSome(CallTransferEncoding) /\ Unwrap(CallTransferEncoding) = CHUNKED) =>
        (call.ended = "true" <=>
            /\ Len(call.payload) >= 5
            /\ Drop(call.payload, Len(call.payload) - 5) = Terminator)

\* C3: a response with neither Content-Length nor Transfer-Encoding is
\* reported by a call whose header block parses if and only if that call has
\* is_fin set; a call without is_fin reports nothing and keeps the buffer.
C3_ResponseCloseDelimited ==
    (HeadersParsed /\ call.http_type = "Response"
        /\ IsNone(CallLength) /\ IsNone(CallTransferEncoding)) =>
        /\ Reported <=> call.is_fin
        /\ ~call.is_fin => BufferKept

\* C4: a request with neither Content-Length nor Transfer-Encoding is
\* reported by the first call in which its header block parses, whatever
\* is_fin is.
C4_RequestImmediate ==
    (HeadersParsed /\ call.http_type = "Request"
        /\ IsNone(CallLength) /\ IsNone(CallTransferEncoding)) => Reported

\* C5: a call that reports a message removes the flow's entry, and every
\* later buffer and artifact of the flow holds only bytes delivered after
\* the reported message.
C5_FreshBufferAfterReport ==
    /\ Reported => call.flow \notin DOMAIN parsers
    /\ \A key \in DOMAIN parsers : parsers[key] = Accumulated(key)
    /\ \A i \in 1..Len(reports) :
          LET r == reports[i]
              before == {j \in 1..(i - 1) : reports[j].flow = r.flow}
              since == IF before = {} THEN 0
                       ELSE reports[CHOOSE j \in before : \A h \in before : h <= j].at
          IN r.raw = SubSeq(stream[r.flow], since + 1, r.at)

\* a message was reported and the flow has buffered bytes again
C5_Witness ==
    \E key \in DOMAIN parsers : LastReportAt(key) > 0 /\ Len(parsers[key]) > 0

\* the stream of the flow is one message with Content-Length: N, no
\* Transfer-Encoding, and exactly N body bytes
IsLengthMessage(key) ==
    LET whole == HttpParse(stream[key], IF dest_port(key) = HTTP_PORT THEN "Request" ELSE "Response")
        length == get_header_value(CONTENT_LENGTH, whole.headers)
    IN /\ whole.st = "Complete"
       /\ IsSome(length) /\ IsNone(get_header_value(TRANSFER_ENCODING, whole.headers))
       /\ ParseUsize(Unwrap(length)) = Some(Len(stream[key]) - whole.start)

\* C6: such a message, under any split into segments, is written to the
\* result holder exactly once, by the call that delivers its last body byte,
\* with the body the whole message has; every earlier call leaves the holder
\* unset and the buffer equal to all segments so far.
C6_LengthMessageOnce ==
    \A key \in DOMAIN stream : (IsLengthMessage(key) /\ call # NoCall) =>
        LET whole == HttpParse(stream[key], call.http_type)
        IN IF pos[key] < Len(stream[key])
           THEN /\ reports = <<>> /\ ~Reported
                /\ parsers[key] = Take(stream[key], pos[key])
           ELSE /\ Len(reports) = 1
                /\ reports[1].at = Len(stream[key])
                /\ reports[1].artifact.payload
                      = parse_http_payload(stream[key], whole.start, whole.headers)
                /\ Reported <=> call.len > 0 \/ (key \notin DOMAIN parsers)

\* C7: no call aborts the process.
C7_NeverAborts == ~aborted

Applied == IsSome(output)
Result == Unwrap(output)

\* C8: merge_chunks of well-formed chunks and the terminator returns the
\* chunks' data bytes, in order, and nothing else.
C8_MergeWellFormed ==
    (Applied /\ input.wellformed) =>
        /\ ~Result.panic
        /\ Result.merged = Data(input.chunks)

\* "Wiki" and "pedia" merged to "Wikipedia"
C8_Witness ==
    /\ Applied
    /\ input.payload = Chunk(<<"4">>, Wiki) \o Chunk(<<"5">>, Pedia) \o Terminator
    /\ Result.merged = Wiki \o Pedia

GzipDeflate == Listing(<<GZIP, DEFLATE>>)

\* C9 as stated: with "gzip, deflate" the payload compressed with deflate
\* first and gzip last decodes, and the one compressed in the other order
\* fails.
C9_GzipUndoneFirst ==
    (Applied /\ input.encoding = GzipDeflate) =>
        /\ input.applied = <<DEFLATE, GZIP>> => Result.ok
        /\ input.applied = <<GZIP, DEFLATE>> => ~Result.ok

\* C9 as the code has it: with "gzip, deflate" the payload compressed with
\* gzip first and deflate last passes both stages, deflate undone before
\* gzip, and the one compressed in the other order fails at deflate.
C9_DeflateUndoneFirst ==
    (Applied /\ input.encoding = GzipDeflate) =>
        /\ input.applied = <<GZIP, DEFLATE>> =>
              /\ Result.ok
              /\ [i \in 1..Len(Result.stages) |-> Result.stages[i].ext] = <<DEFLATE, GZIP>>
        /\ input.applied = <<DEFLATE, GZIP>> => ~Result.ok /\ Result.err = DEFLATE

C9_Witness ==
    /\ Applied /\ input.encoding = GzipDeflate
    /\ input.applied = <<GZIP, DEFLATE>> /\ Result.ok

\* C10: when the payload is the tokens' compressions applied in the order
\* listed, decode_payload undoes them rightmost first, each stage reads what
\* the stage before wrote, and the result is the plain payload.
C10_CascadeInverts ==
    (Applied /\ input.applied = input.tokens) =>
        /\ Result.ok
        /\ Result.val = input.plain
        /\ [i \in 1..Len(Result.stages) |-> Result.stages[i].ext] = Reverse(input.tokens)
        /\ \A i \in 2..Len(Result.stages) : Result.stages[i].in = Result.stages[i - 1].out

\* what decode_payload returns for the input's body and Content-Encoding
Cascade == decode_payload(input.body, Listing(input.tokens))

\* C11: when a stage of the cascade fails, or its token is unknown, the
\* content value is Encoded(failing token, bytes) with the body as it was
\* before the first stage ran.
C11_EncodedOriginalBytes ==
    (Applied /\ input.tokens # <<>> /\ input.body # <<>>
        /\ IsSome(get_header_value(CONTENT_TYPE, input.headers))
        /\ IsSome(ParseMime(Unwrap(get_header_value(CONTENT_TYPE, input.headers))))
        /\ ~Cascade.ok) =>
        Result = Content("Encoded", Cascade.err, input.body)

\* the variant the priority of C12 gives, and its data
Priority(mime, payload, encoding) ==
    IF IsSome(encoding) THEN Content("Encoded", Unwrap(encoding), payload)
    ELSE IF mime.type = "text" /\ IsSome(mime.charset)
    THEN LET bytes == IF Unwrap(mime.charset) = "utf-8" /\ Head(payload) = Bom
                      THEN Tail(payload) ELSE payload
             substituted == Unwrap(mime.charset) = "utf-8"
                            /\ \E i \in 1..Len(bytes) : NotUtf8(bytes[i])
         IN IF substituted THEN Content("TextMalformedDecoded", <<>>, Lossy(bytes))
            ELSE Content("TextCorrectlyDecoded", <<>>, bytes)
    ELSE IF mime.type = "text" THEN Content("TextDefaultDecoded", <<>>, Lossy(payload))
    ELSE IF mime.type = "image" THEN Content("Image", <<>>, payload)
    ELSE IF mime.type = "multipart" THEN Content("Multipart", <<>>, payload)
    ELSE Content("Unknown", <<>>, payload)

\* C12: get_http_type picks exactly one variant: Encoded when a failing
\* token is given, whatever the media type; else for text with a charset
\* TextCorrectlyDecoded or TextMalformedDecoded, for text without
\* TextDefaultDecoded; else Image, Multipart, and Unknown for the rest.
C12_VariantPriority ==
    Applied => Result = Priority(input.mime, input.payload, input.encoding)

\* the last call was a call of handle_tls_packet
TlsCall == call.flow \in TlsFlows /\ call.loop # <<>>
LastIteration == call.loop[Len(call.loop)]
Evicted == call.flow \notin DOMAIN parsers
\* the iterations of the call that printed a record
Printing == {i \in 1..Len(call.loop) : call.loop[i].printed # <<>>}
\* the length the five bytes at the front declare
Declared(front) == Value(front[4]) * 256 + Value(front[5])

\* the segment of the call is all the flow has buffered, and it is one
\* handshake record whose body parses, then 3 more bytes
HandshakeThenGarbage ==
    /\ TlsCall /\ call.len = Len(call.after)
    /\ LET record == parse_tls_raw_record(call.after)
       IN /\ record.st = "Ok" /\ record.hdr.record_type = Handshake
          /\ parse_tls_record_with_header(record.data, record.hdr).st = "Ok"
          /\ Len(record.rem) = 3

ReportedOnce ==
    /\ Printing = {1}
    /\ \A j \in 1..Len(call.loop[1].printed) :
          call.loop[1].printed[j].hdr = RecordHeader(call.after)

\* C13 as stated: such a call reports the handshake record once, returns,
\* and leaves the flow without an entry in the table.
C13_GarbageTailEvicts ==
    HandshakeThenGarbage => ReportedOnce /\ ~call.hung /\ Evicted

\* C13 as the code has it: such a call reports the handshake record once,
\* returns after its second iteration, and leaves the flow's entry holding
\* the 3 bytes, which are the incomplete header of a next record.
C13_GarbageTailKept ==
    HandshakeThenGarbage =>
        /\ ReportedOnce /\ ~call.hung /\ Len(call.loop) = 2
        /\ ~Evicted
        /\ parsers[call.flow] = Drop(call.after, Len(call.after) - 3)

C13_Witness == HandshakeThenGarbage /\ parsers[call.flow] = Garbage

\* the records that stand whole, one behind the other, at the front
RECURSIVE RecordsBuffered(_)
RecordsBuffered(buffer) ==
    IF Len(buffer) >= HeaderLen /\ Len(buffer) >= HeaderLen + Declared(buffer)
    THEN 1 + RecordsBuffered(Drop(buffer, HeaderLen + Declared(buffer)))
    ELSE 0

\* C14: every iteration of the loop leaves the loop or takes a prefix of at
\* least one byte off the buffer, and the call returns within as many
\* iterations as whole records are buffered, plus one.
C14_LoopShrinksOrStops ==
    TlsCall =>
        /\ ~call.hung
        /\ \A i \in 1..Len(call.loop) :
              call.loop[i].outcome = "continue" =>
                  /\ call.loop[i].end > 0 /\ i < Len(call.loop)
                  /\ call.loop[i + 1].front = Drop(call.loop[i].front, call.loop[i].end)
        /\ LastIteration.outcome # "continue"
        /\ Len(call.loop) <= RecordsBuffered(call.after) + 1

\* a call that went through two records and stopped in a third iteration
C14_Witness == TlsCall /\ Len(call.loop) = 3

\* C15: a call of handle_tls_packet in which a record completes leaves its
\* summary in the result holder.
C15_SummaryInHolder ==
    (TlsCall /\ Printing # {}) => Reported

\* what is left behind the record at the front
Remainder(front) == Drop(front, HeaderLen + Declared(front))

\* the iteration reported, and then: nothing left behind the record, the
\* flow is evicted and the loop stops; else the record and no more is
\* dropped and the loop goes on with what is left
ConsumedOrEvicted(i) ==
    LET it == call.loop[i]
    IN IF Remainder(it.front) = <<>>
       THEN it.outcome = "evict" /\ i = Len(call.loop) /\ Evicted
       ELSE /\ it.outcome = "continue" /\ i < Len(call.loop)
            /\ it.end = HeaderLen + Declared(it.front)
            /\ call.loop[i + 1].front = Remainder(it.front)

EvictedAndStopped(i) ==
    call.loop[i].outcome = "evict" /\ i = Len(call.loop) /\ Evicted

\* C16: an iteration on an application data record: when the encrypted
\* decode succeeds the record is reported (its version, type and length) and
\* then consumed or, with nothing left, the flow evicted; when it does not,
\* the flow is evicted and the loop stops.
C16_ApplicationData ==
    TlsCall => \A i \in 1..Len(call.loop) :
        LET it == call.loop[i]
        IN (it.raw = "Ok" /\ it.hdr.record_type = ApplicationData) =>
              IF it.decode = "Ok"
              THEN /\ it.printed = <<Line(0, RecordHeader(it.front), <<>>)>>
                   /\ ConsumedOrEvicted(i)
              ELSE it.printed = <<>> /\ EvictedAndStopped(i)

\* an application data record was consumed and the loop went on
C16_Witness ==
    /\ TlsCall /\ Len(call.loop) >= 2
    /\ call.loop[1].hdr.record_type = ApplicationData /\ call.loop[1].outcome = "continue"

\* C17: an iteration on a record of another type: when the body parses each
\* message is reported and the record consumed or, with nothing left, the
\* flow evicted; when the body is incomplete the loop stops and the entry
\* stays as it is; on an error the flow is evicted and the loop stops.
C17_OtherRecords ==
    TlsCall => \A i \in 1..Len(call.loop) :
        LET it == call.loop[i]
            messages == parse_tls_record_with_header(
                            SubSeq(it.front, HeaderLen + 1, HeaderLen + Declared(it.front)),
                            it.hdr).messages
        IN (it.raw = "Ok" /\ it.hdr.record_type # ApplicationData) =>
              IF it.decode = "Ok"
              THEN /\ Len(it.printed) = Len(messages) /\ messages # <<>>
                   /\ \A j \in 1..Len(messages) : it.printed[j].msg = messages[j]
                   /\ ConsumedOrEvicted(i)
              ELSE IF it.decode = "Incomplete"
              THEN /\ it.printed = <<>> /\ it.outcome = "break" /\ i = Len(call.loop)
                   /\ ~Evicted /\ parsers[call.flow] = it.front
              ELSE it.printed = <<>> /\ EvictedAndStopped(i)

\* a handshake record was consumed, and the body of the record behind it is
\* incomplete
C17_Witness ==
    /\ TlsCall /\ Len(call.loop) = 2
    /\ call.loop[1].hdr.record_type = Handshake /\ call.loop[1].outcome = "continue"
    /\ call.loop[2].decode = "Incomplete"

\* fewer bytes than a header, or than the header and the body it declares
Short(front) ==
    \/ Len(front) < HeaderLen
    \/ Declared(front) <= MAX_RECORD_LEN /\ Len(front) < HeaderLen + Declared(front)

\* C18: when the front of the buffer is short of a whole record the loop
\* stops, nothing is reported for that record and the entry stays as it is
\* (as it is after the append, when nothing was consumed before); when the
\* raw parse gives an error the flow is evicted and the loop stops.
C18_IncompleteKeptErrorEvicted ==
    TlsCall => \A i \in 1..Len(call.loop) :
        LET it == call.loop[i]
        IN /\ Short(it.front) =>
                /\ it.raw = "Incomplete" /\ it.printed = <<>>
                /\ it.outcome = "break" /\ i = Len(call.loop)
                /\ ~Evicted /\ parsers[call.flow] = it.front
                /\ i = 1 => parsers[call.flow] = call.after
           /\ it.raw \in {"Error", "Failure"} => it.printed = <<>> /\ EvictedAndStopped(i)

\* a call ended on a record whose length is over the limit, and an earlier
\* one had left an incomplete record in the table
C18_Witness ==
    /\ TlsCall /\ LastIteration.raw = "Error" /\ Evicted
    /\ Len(call.after) > call.len

\* the accumulated bytes of the call's flow do not parse
Malformed ==
    \/ call.st = "Err"
    \/ TlsCall /\ (LastIteration.raw = "Error" \/ LastIteration.decode = "Error")

\* C19 as stated: a call that finds the flow's accumulated bytes malformed
\* (HTTP start line or header block, TLS record) leaves the flow without an
\* entry in the table.
C19_MalformedDropped ==
    Malformed => Evicted

\* C19 as the code has it: a TLS record that fails to parse has the flow's
\* entry removed before the call returns; an HTTP start line or header block
\* that fails to parse has nothing reported and the entry kept, with every
\* byte delivered so far.
C19_TlsDroppedHttpKept ==
    /\ (TlsCall /\ (LastIteration.raw = "Error" \/ LastIteration.decode = "Error")) => Evicted
    /\ call.st = "Err" => ~Reported /\ BufferKept

\* the header block of an HTTP flow failed to parse, in an earlier call
\* already
C19_Witness ==
    /\ call.st = "Err" /\ call.len > 0
    /\ call.flow \in DOMAIN parsers /\ Len(parsers[call.flow]) > call.len

\* a call leaves the table of every thread but its own as it was
Isolated == \A t \in DOMAIN workers : t # call'.thread => workers'[t] = workers[t]

\* both workers were handed bytes of the flow
BothRouted == \A t \in DOMAIN routed : routed[t] > 0

NeverWhole ==
    BothRouted => \A t \in DOMAIN workers : \A key \in DOMAIN workers[t] :
                 workers[t][key] # stream[key]

\* C20: a call on one thread creates, changes and removes no entry of
\* another thread's table, and once the segments of a flow have gone to
\* both workers neither worker's buffer holds the whole stream of the flow.
C20_ThreadTablesApart == [][Isolated]_vars /\ []NeverWhole

\* the whole stream was delivered, and each worker holds a part of it
C20_Witness ==
    /\ BothRouted
    /\ \A key \in DOMAIN stream : pos[key] = Len(stream[key])
    /\ \A t \in DOMAIN workers : \E key \in DOMAIN workers[t] : workers[t][key] # <<>>

\* every entry but the one under the key of the call is as it was
FrameKept ==
    \A g \in (DOMAIN parsers \cup DOMAIN parsers') \ {call'.flow} :
        /\ g \in DOMAIN parsers
        /\ g \in DOMAIN parsers'
        /\ parsers'[g] = parsers[g]

\* the call's own entry is created, appended to, shortened from the front or
\* removed
OwnEntry ==
    LET key == call'.flow
        before == IF key \in DOMAIN parsers THEN parsers[key] ELSE <<>>
        whole == before \o SubSeq(stream[key], pos[key] + 1, pos'[key])
    IN key \in DOMAIN parsers' =>
          \E n \in 0..Len(whole) : parsers'[key] = Drop(whole, n)

\* C21: the table key is the ordered pair of endpoints: a call for a flow
\* creates, appends to or removes only the entry under its own key, and the
\* entry of the reverse direction and of every other flow stays as it was.
C21_OnlyOwnKey == [][FrameKept /\ OwnEntry]_vars

\* the entry of the call's flow was removed on a report while the reverse
\* direction and the other connection keep their buffered bytes
C21_Witness ==
    /\ call.flow # <<>>
    /\ call.flow \notin DOMAIN parsers
    /\ Reverse(call.flow) \in DOMAIN parsers
    /\ parsers[Reverse(call.flow)] # <<>>
    /\ OtherFlow \in DOMAIN parsers
    /\ parsers[OtherFlow] # <<>>

\* C22: the content value is None exactly when no bytes follow the header
\* block, whatever Content-Type, Content-Encoding and Transfer-Encoding say;
\* the check comes before merging, decompression and classification.
C22_NoneIffNoBody == Applied => (Result = Content("None", <<>>, <<>>) <=> input.wire = <<>>)

\* no bytes behind the header block of a message that is chunked, compressed
\* and typed
C22_Witness ==
    /\ Applied
    /\ input.wire = <<>>
    /\ IsSome(get_header_value(TRANSFER_ENCODING, input.headers))
    /\ IsChunked(Unwrap(get_header_value(TRANSFER_ENCODING, input.headers)))
    /\ IsSome(get_header_value(CONTENT_ENCODING, input.headers))
    /\ IsSome(get_header_value(CONTENT_TYPE, input.headers))
    /\ Result.tag = "None"

\* no Content-Type header, or one that is no media type
Untyped ==
    LET content_type == get_header_value(CONTENT_TYPE, input.headers)
    IN IsNone(content_type) \/ IsNone(ParseMime(Unwrap(content_type)))

\* C30: Content-Encoding is consulted only after a Content-Type was found and
\* parsed: without one, bytes behind the header block are returned as
\* Unknown with the body still compressed, whatever Content-Encoding says.
C30_UntypedBodyUnknown ==
    (Applied /\ input.wire # <<>> /\ Untyped) => Result = Content("Unknown", <<>>, input.body)

\* C23: merge_chunks of a body that is the last chunk alone (0 CR LF CR LF)
\* stops at that chunk and returns the empty byte sequence without failing.
C23_TerminatorAloneEmpty ==
    (Applied /\ input.payload = Terminator) => Result = [panic |-> FALSE, merged |-> <<>>]

\* the header parse of the call's HTTP flow failed
ParseFailed == call.flow \in HttpFlows /\ call.st = "Err"

\* the next call on the flow appends its segment and fails to parse again
FailsAgain ==
    (ParseFailed /\ call'.flow = call.flow) =>
        /\ ParseFailed'
        /\ call.flow \in DOMAIN parsers'
        /\ parsers'[call.flow] = parsers[call.flow]
                                    \o SubSeq(stream[call.flow], pos[call.flow] + 1, pos'[call.flow])

\* C24: a call whose header parse fails writes no artifact and keeps the
\* buffer with the offending bytes; every later call on the flow appends
\* behind them and fails again, so nothing is reported on the flow any more.
C24_ParseFailureSticks ==
    /\ [](ParseFailed => ~Reported /\ BufferKept)
    /\ [][FailsAgain]_vars

\* bytes behind a reported message do not parse, and the calls that brought
\* the rest of the stream failed as well
C24_Witness ==
    /\ ParseFailed
    /\ reports # <<>>
    /\ call.len > 0
    /\ pos[call.flow] = Len(stream[call.flow])
    /\ Len(parsers[call.flow]) > call.len

\* the Content-Length of the call's message, when it has one that is a number
\* and no Transfer-Encoding
DeclaredLength ==
    IF HeadersParsed /\ IsSome(CallLength) /\ IsNone(CallTransferEncoding)
    THEN ParseUsize(Unwrap(CallLength)) ELSE None

\* more bytes are buffered behind the header block than Content-Length says
Overrun ==
    /\ call.flow \in HttpFlows
    /\ IsSome(DeclaredLength)
    /\ Len(call.payload) > Unwrap(DeclaredLength)

\* the next call on the flow appends its segment and finds the same
StaysOverrun ==
    (Overrun /\ call'.flow = call.flow) =>
        /\ Overrun'
        /\ call.flow \in DOMAIN parsers'
        /\ parsers'[call.flow] = parsers[call.flow]
                                    \o SubSeq(stream[call.flow], pos[call.flow] + 1, pos'[call.flow])

\* C28: with Content-Length: N and no Transfer-Encoding, once more than N
\* bytes are buffered behind the header block no later segment, with or
\* without is_fin, has a message reported or the flow evicted; the buffer
\* grows by each segment's length.
C28_OverrunNeverReports ==
    /\ [](Overrun => ~Reported /\ BufferKept)
    /\ [][StaysOverrun]_vars

\* the segment that completed the body brought a byte more, and a later
\* segment with is_fin changed nothing
C28_Witness ==
    /\ Overrun
    /\ call.is_fin
    /\ call.len > 0
    /\ Len(call.payload) > Unwrap(DeclaredLength) + call.len
    /\ reports = <<>>

\* the call's message has a Transfer-Encoding that is not "chunked", and no
\* Content-Length
OtherCoding ==
    /\ call.flow \in HttpFlows
    /\ HeadersParsed
    /\ IsNone(CallLength)
    /\ IsSome(CallTransferEncoding)
    /\ Unwrap(CallTransferEncoding) # CHUNKED

\* C29: a message with a Transfer-Encoding other than exactly "chunked" and
\* no Content-Length is never found ended, request or response, with is_fin
\* or without: the close rule needs both headers absent.
C29_OtherCodingNeverEnds ==
    OtherCoding => call.ended = "false" /\ ~Reported /\ BufferKept

\* a response with Transfer-Encoding: gzip, chunked, whole with its last
\* chunk, in a segment with is_fin
C29_Witness ==
    /\ OtherCoding
    /\ call.http_type = "Response"
    /\ call.is_fin
    /\ Unwrap(CallTransferEncoding) # <<"identity">>
    /\ ChunkedTailSeen(call.payload)
    /\ pos[call.flow] = Len(stream[call.flow])

\* the stream is whole records whose bodies parse, one behind the other
RECURSIVE WellFormed(_)
WellFormed(s) ==
    \/ s = <<>>
    \/ LET record == parse_tls_raw_record(s)
       IN /\ record.st = "Ok"
          /\ \/ record.hdr.record_type = ApplicationData
             \/ parse_tls_record_with_header(record.data, record.hdr).st = "Ok"
          /\ WellFormed(record.rem)

\* the length of the first k records of the stream
RECURSIVE Offset(_, _)
Offset(s, k) ==
    IF k = 0 THEN 0
    ELSE HeaderLen + Declared(s) + Offset(Drop(s, HeaderLen + Declared(s)), k - 1)

\* the call printed the records its segment completed, each from the bytes
\* delivered from its first byte on, and left the bytes delivered behind them
EachOnceInOrder ==
    LET s == stream[call.flow]
        to == pos[call.flow]
        done == RecordsBuffered(Take(s, to - call.len))
        whole == RecordsBuffered(Take(s, to))
    IN /\ ~call.hung
       /\ Printing = 1..(whole - done)
       /\ \A j \in Printing : call.loop[j].front = SubSeq(s, Offset(s, done + j - 1) + 1, to)
       /\ IF call.flow \in DOMAIN parsers
          THEN parsers[call.flow] = SubSeq(s, Offset(s, whole) + 1, to)
          ELSE Offset(s, whole) = to

\* C25: for a stream of well-formed records whose bodies parse, delivered in
\* order under any split into segments, every record is reported once and in
\* stream order (each call reports the records its segment completed), and
\* after every call the buffer, if there is one, is the delivered bytes from
\* the first unreported record on.
C25_SplitsDoNotMatter ==
    (TlsCall /\ WellFormed(stream[call.flow])) => EachOnceInOrder

\* two records, all delivered: the first was reported by an earlier call, the
\* second came in two segments, split inside it
C25_Witness ==
    /\ TlsCall /\ WellFormed(stream[call.flow])
    /\ pos[call.flow] = Len(stream[call.flow])
    /\ RecordsBuffered(stream[call.flow]) = 2
    /\ Printing = {1}
    /\ call.len < Len(call.after)
    /\ Len(call.after) < HeaderLen + Declared(call.after) + call.len
    /\ Evicted

\* the body of the record at the front, not application data, parsed as
\* incomplete
Stuck == TlsCall /\ LastIteration.raw = "Ok" /\ LastIteration.decode = "Incomplete"

\* the next call on the flow appends its segment, parses the same record
\* with the same result and stops
StaysStuck ==
    (Stuck /\ call'.flow = call.flow) =>
        /\ Stuck'
        /\ Len(call'.loop) = 1
        /\ call'.loop[1].hdr = LastIteration.hdr
        /\ call'.loop[1].printed = <<>>
        /\ call.flow \in DOMAIN parsers'
        /\ parsers'[call.flow] = parsers[call.flow]
                                    \o SubSeq(stream[call.flow], pos[call.flow] + 1, pos'[call.flow])

\* C27: once the body of a record that is not application data parses as
\* incomplete at the front of the buffer, every later call appends its
\* segment, parses that record with that result and stops: no record is
\* reported on the flow any more, the buffer is never shortened or evicted
\* and grows by each segment's length.
C27_IncompleteBodySticks ==
    /\ [](Stuck => ~call.hung /\ ~Evicted /\ parsers[call.flow] = LastIteration.front)
    /\ [][StaysStuck]_vars

\* the record stayed at the front while two later segments brought the
\* bytes behind it
C27_Witness ==
    /\ Stuck
    /\ Len(call.loop) = 1
    /\ call.len > 0
    /\ pos[call.flow] = Len(stream[call.flow])
    /\ Len(parsers[call.flow]) > HeaderLen + LastIteration.hdr.len + call.len

\* the variant the claim gives for a slice the view accepts
Decoded(protocol, packet) ==
    IF protocol = "Udp" THEN "UdpPacket"
    ELSE IF protocol = "Tcp" THEN "TcpPacket"
    ELSE IF protocol = "Icmpv6" THEN "Icmpv6Packet"
    ELSE IF Len(packet) < IcmpHeaderLen THEN "MalformedPacket"
    ELSE IF get_icmp_type(packet) = EchoReply THEN "EchoReplyPacket"
    ELSE IF get_icmp_type(packet) = EchoRequest THEN "EchoRequestPacket"
    ELSE "IcmpPacket"

\* C26: for a slice of any length the UDP, TCP, ICMP and ICMPv6 handlers
\* return with the transport layer set to the decoded variant or to
\* MalformedPacket; for ICMP the variant follows the type field, also when
\* the slice holds the ICMP header but not the echo header.
C26_TransportTotal ==
    (Applied /\ input.protocol \in {"Udp", "Tcp", "Icmp", "Icmpv6"}) =>
        /\ ~Result.panic
        /\ IsSome(Result.layer)
        /\ Unwrap(Result.layer).variant \in {Decoded(input.protocol, input.packet), "MalformedPacket"}
        /\ (input.protocol = "Icmp" /\ Len(input.packet) >= IcmpHeaderLen) =>
               Unwrap(Result.layer).variant = Decoded(input.protocol, input.packet)

====
